---- MODULE Spec2Model ----
(***************************************************************************)
(* Model of the song mix generator: the Camelot compatibility rule         *)
(* (SongMixGenerator.can_mix), the catalog loaders, the subset enumeration *)
(* with the memoized sequence search (find_all_mixes), and the Flask front *)
(* end's shared state (generator, mixes_map).                              *)
(*                                                                         *)
(* Strings that the code indexes (harmonic tags) are sequences of          *)
(* one-character strings.  A Song object is a record with an id field      *)
(* that stands for the object's identity: two rows with equal fields       *)
(* yield two different Song objects.                                       *)
(***************************************************************************)
EXTENDS Integers, Sequences, FiniteSets, TLC

VARIABLES
    camelot1,        \* can_mix: first argument
    camelot2,        \* can_mix: second argument
    mixable,         \* can_mix: outcome, "pending" before the call
    songs,           \* generator.songs
    songs_by_style,  \* generator.songs_by_style
    pc,              \* main(): position of the command-line program
    max_songs,       \* main(): max_songs returned by get_user_input
    style_order,     \* main(): style_order returned by get_user_input
    found,           \* find_all_mixes: per enumerated combination, the mixes found
    mixes,           \* main(): the list find_all_mixes returned
    mixes_rerun,     \* the list returned by a second run on the same inputs
    mixes_map,       \* app.py: the global mixes_map, in insertion order
    created,         \* app.py: number of Song objects created so far
    upload,          \* app.py: the index() POST in flight, if any
    uploads,         \* app.py: uploads started
    generates,       \* app.py: generate requests handled
    gen_read,        \* what the last generate request read of the catalog
    shown,           \* per client, the sets the last generate response listed
    viewed           \* the last view_set request and what it returned

tagVars == <<camelot1, camelot2, mixable>>
genVars == <<songs, songs_by_style>>
cliVars == <<pc, max_songs, style_order, found, mixes, mixes_rerun>>
webVars == <<mixes_map, created, upload, uploads, generates, gen_read, shown, viewed>>
vars == <<camelot1, camelot2, mixable, songs, songs_by_style,
          pc, max_songs, style_order, found, mixes, mixes_rerun,
          mixes_map, created, upload, uploads, generates, gen_read, shown, viewed>>

----------------------------------------------------------------------------
(* Bounds of the model *)

\* longest tag string enumerated for one argument of can_mix
MaxTagLen == 3
\* most rows in a CSV file
MaxRows == 3
\* longest style order entered
MaxOrderLen == 2
\* largest max_songs entered
MaxSongsInput == 3
\* uploads the web front end receives
MaxUploads == 2
\* generate requests the web front end receives
MaxGenerates == 2

----------------------------------------------------------------------------
(* Characters and Python's str/int primitives *)

DigitChars == <<"0", "1", "2", "3", "4", "5", "6", "7", "8", "9">>

IsDigit(c) == \E d \in 1..10 : DigitChars[d] = c

DigitVal(c) == (CHOOSE d \in 1..10 : DigitChars[d] = c) - 1

\* str.upper() on one character (the lowercase letters the model enumerates)
Upper(c) ==
    CASE c = "a" -> "A"
      [] c = "b" -> "B"
      [] c = "c" -> "C"
      [] OTHER -> c

UpperStr(s) == [i \in 1..Len(s) |-> Upper(s[i])]

RECURSIVE DigitsValue(_)
DigitsValue(s) ==
    IF s = <<>> THEN 0
    ELSE 10 * DigitsValue(SubSeq(s, 1, Len(s) - 1)) + DigitVal(s[Len(s)])

\* int(number_str): an optional sign and one or more decimal digits; anything
\* else raises ValueError.  (int also skips surrounding whitespace and single
\* underscores between digits; the strings enumerated here hold neither.)
PyInt(s) ==
    LET signed == s # <<>> /\ s[1] \in {"+", "-"}
        body == IF signed THEN Tail(s) ELSE s
    IN  IF body # <<>> /\ \A i \in 1..Len(body) : IsDigit(body[i])
        THEN [exc |-> "none",
              value |-> IF signed /\ s[1] = "-" THEN 0 - DigitsValue(body)
                        ELSE DigitsValue(body)]
        ELSE [exc |-> "ValueError", value |-> 0]

\* str(n) for n >= 0
RECURSIVE PyStr(_)
PyStr(n) ==
    IF n < 10 THEN <<DigitChars[n + 1]>>
    ELSE PyStr(n \div 10) \o <<DigitChars[(n % 10) + 1]>>

----------------------------------------------------------------------------
(* SongMixGenerator.parse_camelot and can_mix *)

parse_camelot_norange(camelot) ==
    IF Len(camelot) < 2 THEN [exc |-> "ValueError", number |-> 0, letter |-> ""]
    ELSE LET number_str == SubSeq(camelot, 1, Len(camelot) - 1)
             letter == Upper(camelot[Len(camelot)])
             n == PyInt(number_str)
         IN  IF n.exc # "none"
             THEN [exc |-> "ValueError", number |-> 0, letter |-> ""]
             ELSE IF letter \notin {"A", "B"}
             THEN [exc |-> "ValueError", number |-> 0, letter |-> ""]
             ELSE [exc |-> "none", number |-> n.value, letter |-> letter]

parse_camelot(camelot) ==
    IF Len(camelot) < 2 THEN [exc |-> "ValueError", number |-> 0, letter |-> ""]
    ELSE LET number_str == SubSeq(camelot, 1, Len(camelot) - 1)
             letter == Upper(camelot[Len(camelot)])
             n == PyInt(number_str)
         IN  IF n.exc # "none"
             THEN [exc |-> "ValueError", number |-> 0, letter |-> ""]
             ELSE IF ~(1 <= n.value /\ n.value <= 12)
             THEN [exc |-> "ValueError", number |-> 0, letter |-> ""]
             ELSE IF letter \notin {"A", "B"}
             THEN [exc |-> "ValueError", number |-> 0, letter |-> ""]
             ELSE [exc |-> "none", number |-> n.value, letter |-> letter]

Abs(x) == IF x < 0 THEN 0 - x ELSE x

\* Rules 1-3 on two parsed tags
rules_nowrap(num1, letter1, num2, letter2) ==
    \/ num1 = num2 /\ letter1 = letter2
    \/ num1 = num2 /\ letter1 # letter2
    \/ letter1 = letter2 /\ Abs(num1 - num2) = 1

rules(num1, letter1, num2, letter2) ==
    \/ num1 = num2 /\ letter1 = letter2
    \/ num1 = num2 /\ letter1 # letter2
    \/ letter1 = letter2 /\ (Abs(num1 - num2) = 1 \/ Abs(num1 - num2) = 11)

\* The outcome of can_mix: "True", "False", or the name of an exception
\* that escapes (only ValueError is caught).
can_mix_outcome(c1, c2) ==
    LET p1 == parse_camelot(c1)
        p2 == parse_camelot(c2)
    IN  IF p1.exc = "ValueError" THEN "False"
        ELSE IF p1.exc # "none" THEN p1.exc
        ELSE IF p2.exc = "ValueError" THEN "False"
        ELSE IF p2.exc # "none" THEN p2.exc
        ELSE IF rules(p1.number, p1.letter, p2.number, p2.letter) THEN "True"
        ELSE "False"

can_mix(c1, c2) == can_mix_outcome(c1, c2) = "True"

----------------------------------------------------------------------------
(* Catalog rows and load_songs_from_csv *)

\* str.lower() on a style token (the tokens the model enumerates)
Lower(style) ==
    CASE style = "FAST" -> "fast"
      [] style = "Drop" -> "drop"
      [] OTHER -> style

NoIndex == [style \in {} |-> <<>>]

\* self.songs_by_style[style].append(song) on a defaultdict(list)
index_append(index, style, song) ==
    IF style \in DOMAIN index
    THEN [index EXCEPT ![style] = Append(@, song)]
    ELSE index @@ (style :> <<song>>)

RECURSIVE index_song(_, _, _)
index_song(index, styles, song) ==
    IF styles = <<>> THEN index
    ELSE index_song(index_append(index, Head(styles), song), Tail(styles), song)

\* Song(name, artist, camelot, styles) built from one row (lines 27-35); id is
\* the identity of the new object.
song_of_row(row, id) ==
    [id |-> id,
     name |-> row.name,
     artist |-> row.artist,
     camelot |-> UpperStr(row.camelot),
     styles |-> [i \in 1..Len(row.style) |-> Lower(row.style[i])]]

\* The for loop of load_songs_from_csv over the rows that are left.  A short
\* row (a column missing: DictReader yields None, None.strip() raises) ends
\* the loop with the exception; the rows before it stay appended.
RECURSIVE load_rows(_, _, _)
load_rows(rows, songs0, index0) ==
    IF rows = <<>> THEN [ok |-> TRUE, songs |-> songs0, index |-> index0]
    ELSE IF Head(rows).short THEN [ok |-> FALSE, songs |-> songs0, index |-> index0]
    ELSE LET song == song_of_row(Head(rows), Len(songs0) + 1)
         IN  load_rows(Tail(rows), Append(songs0, song),
                       index_song(index0, song.styles, song))

\* load_songs_from_csv(filename): file.missing is a filename that does not
\* exist (FileNotFoundError, before any row is read).
load_songs_from_csv(file, songs0, index0) ==
    IF file.missing THEN [ok |-> FALSE, songs |-> songs0, index |-> index0]
    ELSE load_rows(file.rows, songs0, index0)

----------------------------------------------------------------------------
(* The sequence search and the subset enumeration *)

\* The order in which "for song in song_set" visits a set of Song objects.
\* Song defines no __hash__, so the set orders its members by their addresses:
\* rank is the order of the catalog's objects that the addresses induce.
iteration_order(song_set, rank, catalog) ==
    LET Member(song) == song \in song_set
    IN  SelectSeq([i \in 1..Len(rank) |-> catalog[rank[i]]], Member)

memo_key(position, last_song) ==
    <<position, IF last_song = <<>> THEN <<>> ELSE <<last_song[1].name>>>>

RECURSIVE dp(_, _, _, _, _)
RECURSIVE dp_candidates(_, _, _, _, _, _, _)

\* dp(position, last_song) with the memo dictionary passed along: the result
\* is the list returned and the dictionary after the call.  last_song is
\* <<>> for None and <<song>> otherwise; iter is song_set in iteration order.
dp(iter, order, position, last_song, memo) ==
    IF position = Len(order) THEN [mixes |-> << <<>> >>, memo |-> memo]
    ELSE LET key == memo_key(position, last_song)
         IN  IF key \in DOMAIN memo THEN [mixes |-> memo[key], memo |-> memo]
             ELSE LET required_style == order[position + 1]
                      HasStyle(song) ==
                          \E i \in 1..Len(song.styles) : song.styles[i] = required_style
                      candidates == SelectSeq(iter, HasStyle)
                      r == dp_candidates(iter, order, position, last_song,
                                         candidates, memo, <<>>)
                  IN  [mixes |-> r.mixes, memo |-> (key :> r.mixes) @@ r.memo]

\* the loop "for candidate in candidates" of dp (lines 188-196)
dp_candidates(iter, order, position, last_song, candidates, memo, valid_mixes) ==
    IF candidates = <<>> THEN [mixes |-> valid_mixes, memo |-> memo]
    ELSE LET candidate == Head(candidates)
         IN  IF last_song = <<>> \/ can_mix(last_song[1].camelot, candidate.camelot)
             THEN LET r == dp(iter, order, position + 1, <<candidate>>, memo)
                      extended == [j \in 1..Len(r.mixes) |-> <<candidate>> \o r.mixes[j]]
                  IN  dp_candidates(iter, order, position, last_song,
                                    Tail(candidates), r.memo, valid_mixes \o extended)
             ELSE dp_candidates(iter, order, position, last_song,
                                Tail(candidates), memo, valid_mixes)

NoMemo == [key \in {} |-> <<>>]

\* _find_mixes_with_song_set(song_set, style_order), song_set in iteration order
find_mixes_with_song_set(iter, order) == dp(iter, order, 0, <<>>, NoMemo).mixes

\* itertools.combinations(range(lo, n + 1), k), in its lexicographic order
RECURSIVE combinations(_, _, _)
combinations(lo, n, k) ==
    IF k = 0 THEN << <<>> >>
    ELSE IF lo > n THEN <<>>
    ELSE LET rest == combinations(lo + 1, n, k - 1)
         IN  [j \in 1..Len(rest) |-> <<lo>> \o rest[j]] \o combinations(lo + 1, n, k)


min(a, b) == IF a < b THEN a ELSE b

RECURSIVE flatten(_)
flatten(lists) ==
    IF lists = <<>> THEN <<>> ELSE Head(lists) \o flatten(Tail(lists))

\* self.songs_by_style.get(style, [])
style_songs(index, style) == IF style \in DOMAIN index THEN index[style] ELSE <<>>

\* every combination of 1..min(max_songs, len(songs)) songs, in the order the
\* two for loops of find_all_mixes enumerate them (lines 156-158)
song_combinations(n_songs, max) ==
    flatten([k \in 1..min(max, n_songs) |-> combinations(1, n_songs, k)])

\* The body of the two loops: for each combination, the song_set and the
\* valid_mixes that _find_mixes_with_song_set returns for it.
search_combinations(catalog, max, order, rank) ==
    LET combs == song_combinations(Len(catalog), max)
    IN  [c \in 1..Len(combs) |->
            LET song_set == {catalog[combs[c][i]] : i \in 1..Len(combs[c])}
            IN  [song_set |-> song_set,
                 mixes |-> find_mixes_with_song_set(
                               iteration_order(song_set, rank, catalog), order)]]

\* a variant that drops the styles nobody carries instead of giving up
found_by_combination_skip(catalog, index, max, order, rank) ==
    LET Known(style) == style_songs(index, style) # <<>>
    IN  IF order = <<>> THEN <<>>
        ELSE search_combinations(catalog, max, SelectSeq(order, Known), rank)

\* find_all_mixes up to its return, keeping each combination's mixes apart:
\* empty style_order and a style without songs return at once (lines 141-151).
found_by_combination(catalog, index, max, order, rank) ==
    IF order = <<>> THEN <<>>
    ELSE IF \E i \in 1..Len(order) : style_songs(index, order[i]) = <<>> THEN <<>>
    ELSE search_combinations(catalog, max, order, rank)

\* all_valid_mixes: the combinations' lists, extended one after the other
all_valid_mixes(by_combination) ==
    flatten([c \in 1..Len(by_combination) |-> by_combination[c].mixes])

----------------------------------------------------------------------------
(* The command-line program main(): load, prompt, search *)

Row(name, artist, camelot, style, short) ==
    [name |-> name, artist |-> artist, camelot |-> camelot, style |-> style,
     short |-> short]

\* Rows a file may hold.  Two rows share the name X but not the tag; the last
\* one lacks its style column.
RowPool ==
    {Row("X", "P", <<"8", "a">>, <<"FAST">>, FALSE),
     Row("X", "Q", <<"3", "B">>, <<"fast">>, FALSE),
     Row("Y", "P", <<"9", "A">>, <<"fast", "Drop">>, FALSE),
     Row("Z", "Q", <<"9", "A">>, <<>>, TRUE)}

CsvFiles ==
    {[missing |-> TRUE, rows |-> <<>>]} \cup
    {[missing |-> FALSE, rows |-> rows] :
        rows \in UNION {[1..k -> RowPool] : k \in 0..MaxRows}}

\* Styles a user may type: "slow" is carried by no row
StyleInputs == {"fast", "drop", "slow"}

StyleOrders == UNION {[1..k -> StyleInputs] : k \in 1..MaxOrderLen}

\* the orders in which n objects can lie in memory
Ranks(n) == {r \in [1..n -> 1..n] : \A i, j \in 1..n : r[i] = r[j] => i = j}

IdleTag ==
    /\ camelot1 = <<>>
    /\ camelot2 = <<>>
    /\ mixable = "pending"

NoUpload == [at |-> "idle", rows |-> <<>>, file |-> <<>>, prior |-> <<>>, base |-> 0]

NoRead == [during |-> FALSE, songs |-> <<>>, prior |-> <<>>, file |-> <<>>, base |-> 0]

NoView == [asked |-> FALSE, valid |-> FALSE, mixes |-> <<>>, listed |-> <<>>]

Clients == {1, 2}

IdleWeb ==
    /\ mixes_map = <<>>
    /\ created = 0
    /\ upload = NoUpload
    /\ uploads = 0
    /\ generates = 0
    /\ gen_read = NoRead
    /\ shown = [c \in Clients |-> <<>>]
    /\ viewed = NoView

\* generator = SongMixGenerator() (lines 17-19, 231)
InitMix ==
    /\ songs = <<>>
    /\ songs_by_style = NoIndex
    /\ pc = "start"
    /\ max_songs = 0
    /\ style_order = <<>>
    /\ found = <<>>
    /\ mixes = <<>>
    /\ mixes_rerun = <<>>
    /\ IdleTag
    /\ IdleWeb

\* generator.load_songs_from_csv(filename) and the two returns that follow
\* it in main (lines 238-243)
LoadSongs ==
    /\ pc = "start"
    /\ \E file \in CsvFiles :
          LET r == load_songs_from_csv(file, songs, songs_by_style)
          IN  /\ songs' = r.songs
              /\ songs_by_style' = r.index
              /\ pc' = IF ~r.ok THEN "load_failed"
                       ELSE IF r.songs = <<>> THEN "no_songs"
                       ELSE "loaded"
    /\ UNCHANGED <<tagVars, webVars, max_songs, style_order, found, mixes, mixes_rerun>>

\* generator.get_user_input(): a positive max_songs, a non-empty style list
\* (unknown styles are kept when the user answers y)
GetUserInput ==
    /\ pc = "loaded"
    /\ max_songs' \in 1..MaxSongsInput
    /\ style_order' \in StyleOrders
    /\ pc' = "input"
    /\ UNCHANGED <<tagVars, webVars, genVars, found, mixes, mixes_rerun>>

\* mixes = generator.find_all_mixes(max_songs, style_order)
FindAllMixes ==
    /\ pc = "input"
    /\ \E rank \in Ranks(Len(songs)) :
          /\ found' = found_by_combination(songs, songs_by_style, max_songs,
                                           style_order, rank)
          /\ mixes' = all_valid_mixes(found')
    /\ pc' = "done"
    /\ UNCHANGED <<tagVars, webVars, genVars, max_songs, style_order, mixes_rerun>>

NextMix == LoadSongs \/ GetUserInput \/ FindAllMixes

SpecMix == InitMix /\ [][NextMix]_vars

\* The program run once more on the same file with the same answers: the
\* same catalog, style order and max_songs, the Song objects allocated anew.
FindAllMixesAgain ==
    /\ pc = "done"
    /\ \E rank \in Ranks(Len(songs)) :
          mixes_rerun' = all_valid_mixes(
              found_by_combination(songs, songs_by_style, max_songs,
                                   style_order, rank))
    /\ pc' = "done_again"
    /\ UNCHANGED <<tagVars, webVars, genVars, max_songs, style_order, found, mixes>>

NextRerun == LoadSongs \/ GetUserInput \/ FindAllMixes \/ FindAllMixesAgain

SpecRerun == InitMix /\ [][NextRerun]_vars

----------------------------------------------------------------------------
(* The compatibility rule as a program of its own: two tag strings are      *)
(* drawn, can_mix is called on them.                                        *)

TagAlphabet == {"0", "1", "2", "A", "B", "C", "a", "-"}

StringsUpTo(n) == UNION {[1..k -> TagAlphabet] : k \in 0..n}

\* The tag string of ring position n and letter l, as a catalog row holds it
FormatTag(n, l) == PyStr(n) \o <<l>>

ValidTagStrings == {FormatTag(n, l) : n \in 1..12, l \in {"A", "B"}}

\* The other argument: every valid tag, and one tag for each way of being
\* malformed (too short, no number, not a number, out of range, bad letter)
OtherTagStrings ==
    ValidTagStrings \cup
        {<<>>, <<"A">>, <<"8">>, <<"x", "A">>, <<"-", "1", "A">>, <<"0", "B">>,
         <<"1", "3", "A">>, <<"8", "C">>, <<"1", "2", "b">>, <<"1", "a">>}

IdleGenerator ==
    /\ songs = <<>>
    /\ songs_by_style = NoIndex

IdleCli ==
    /\ pc = "off"
    /\ max_songs = 0
    /\ style_order = <<>>
    /\ found = <<>>
    /\ mixes = <<>>
    /\ mixes_rerun = <<>>

InitTag ==
    /\ camelot1 \in StringsUpTo(MaxTagLen) \cup ValidTagStrings
    /\ camelot2 \in OtherTagStrings
    /\ mixable = "pending"
    /\ IdleGenerator
    /\ IdleCli
    /\ IdleWeb

\* can_mix(camelot1, camelot2)
CanMixCall ==
    /\ mixable = "pending"
    /\ mixable' = can_mix_outcome(camelot1, camelot2)
    /\ UNCHANGED <<camelot1, camelot2, genVars, cliVars, webVars>>

\* can_mix(camelot2, camelot1): the same call with the arguments exchanged
CanMixCallSwapped ==
    /\ mixable = "pending"
    /\ mixable' = can_mix_outcome(camelot2, camelot1)
    /\ camelot1' = camelot2
    /\ camelot2' = camelot1
    /\ UNCHANGED <<genVars, cliVars, webVars>>

NextTag == CanMixCall \/ CanMixCallSwapped

SpecTag == InitTag /\ [][NextTag]_vars

----------------------------------------------------------------------------
(* The Flask front end (app.py).  The development server that app.run      *)
(* starts handles each request in a thread of its own, so the statements   *)
(* of one handler interleave with other handlers.  One upload is in flight *)
(* at a time here; generate and view_set run as one step each.             *)

\* The files a browser may upload: two well-formed catalogs and one whose
\* second row lacks a column
UploadFiles ==
    {<<Row("X", "P", <<"8", "a">>, <<"FAST">>, FALSE),
       Row("Y", "P", <<"9", "A">>, <<"fast", "Drop">>, FALSE)>>,
     <<Row("X", "Q", <<"3", "B">>, <<"fast">>, FALSE)>>,
     <<Row("X", "Q", <<"3", "B">>, <<"fast">>, FALSE),
       Row("Z", "Q", <<"9", "A">>, <<>>, TRUE)>>}

\* styleOrder of a generate request (its default is the empty list)
RequestOrders == {<<>>, <<"fast">>, <<"drop">>, <<"fast", "drop">>}

\* maxSongs of a generate request
RequestMax == {1, 2}

\* SongMixGenerator.generate_mixes_map(max_songs, style_order): for every
\* combination of 1..max_songs songs, the mixes of the sequence search that
\* use every song of the combination; a combination with no such mix gets no
\* entry.
generate_mixes_map(catalog, max, order, rank) ==
    LET by_combination == search_combinations(catalog, max, order, rank)
        Exact(c) ==
            LET Uses(m) == {m[i] : i \in 1..Len(m)} = by_combination[c].song_set
            IN  SelectSeq(by_combination[c].mixes, Uses)
        filtered == [c \in 1..Len(by_combination) |->
                        [song_set |-> by_combination[c].song_set, mixes |-> Exact(c)]]
        NonEmpty(entry) == entry.mixes # <<>>
    IN  SelectSeq(filtered, NonEmpty)

Init ==
    /\ songs = <<>>
    /\ songs_by_style = NoIndex
    /\ IdleWeb
    /\ IdleTag
    /\ IdleCli

\* index(), POST with a file, up to line 21: generator.songs = []
UploadBegin ==
    /\ upload.at = "idle"
    /\ uploads < MaxUploads
    /\ \E file \in UploadFiles :
          upload' = [at |-> "cleared_songs", rows |-> file, file |-> file,
                     prior |-> songs, base |-> created]
    /\ uploads' = uploads + 1
    /\ songs' = <<>>
    /\ UNCHANGED <<songs_by_style, mixes_map, created, generates, gen_read, shown,
                   viewed, tagVars, cliVars>>

\* line 22: generator.songs_by_style = defaultdict(list)
UploadClearIndex ==
    /\ upload.at = "cleared_songs"
    /\ songs_by_style' = NoIndex
    /\ upload' = [upload EXCEPT !.at = "rows"]
    /\ UNCHANGED <<songs, mixes_map, created, uploads, generates, gen_read, shown,
                   viewed, tagVars, cliVars>>

\* lines 24-30: the next row is read and its Song appended to generator.songs;
\* a short row raises and the request ends there (a 500 response)
UploadRow ==
    /\ upload.at = "rows"
    /\ upload.rows # <<>>
    /\ IF Head(upload.rows).short
       THEN /\ upload' = [upload EXCEPT !.at = "idle"]
            /\ UNCHANGED <<songs, created>>
       ELSE /\ songs' = Append(songs, song_of_row(Head(upload.rows), created + 1))
            /\ created' = created + 1
            /\ upload' = [upload EXCEPT !.at = "index"]
    /\ UNCHANGED <<songs_by_style, mixes_map, uploads, generates, gen_read, shown,
                   viewed, tagVars, cliVars>>

\* lines 31-32: the Song just appended is indexed under each of its styles
UploadIndex ==
    /\ upload.at = "index"
    /\ LET song == songs[Len(songs)]
       IN  songs_by_style' = index_song(songs_by_style, song.styles, song)
    /\ upload' = [upload EXCEPT !.at = "rows", !.rows = Tail(@)]
    /\ UNCHANGED <<songs, mixes_map, created, uploads, generates, gen_read, shown,
                   viewed, tagVars, cliVars>>

\* lines 33-34: the loop is over, the response is rendered
UploadEnd ==
    /\ upload.at = "rows"
    /\ upload.rows = <<>>
    /\ upload' = [upload EXCEPT !.at = "idle"]
    /\ UNCHANGED <<genVars, mixes_map, created, uploads, generates, gen_read, shown,
                   viewed, tagVars, cliVars>>

\* generate(), for a client: mixes_map is replaced and its keys are listed
\* with their numbers.  gen_read notes the track list the request read and
\* the upload that was in flight.
Generate ==
    /\ generates < MaxGenerates
    /\ \E client \in Clients, order \in RequestOrders, max \in RequestMax,
          rank \in Ranks(Len(songs)) :
          /\ mixes_map' = generate_mixes_map(songs, max, order, rank)
          /\ shown' = [shown EXCEPT ![client] =
                          [i \in 1..Len(mixes_map') |->
                              [index |-> i,
                               song_set |-> mixes_map'[i].song_set,
                               mixes |-> mixes_map'[i].mixes]]]
    /\ gen_read' = [during |-> upload.at # "idle", songs |-> songs,
                    prior |-> upload.prior, file |-> upload.file,
                    base |-> upload.base]
    /\ generates' = generates + 1
    /\ UNCHANGED <<genVars, created, upload, uploads, viewed, tagVars, cliVars>>

\* view_set(set_index), by a client for a number its last response listed, or
\* for the first number past the end of mixes_map
ViewSet ==
    /\ \E client \in Clients :
          \E set_index \in (1..Len(shown[client])) \cup {Len(mixes_map) + 1} :
              viewed' =
                  [asked |-> TRUE,
                   valid |-> 1 <= set_index /\ set_index <= Len(mixes_map),
                   mixes |-> IF 1 <= set_index /\ set_index <= Len(mixes_map)
                             THEN mixes_map[set_index].mixes ELSE <<>>,
                   listed |-> IF set_index <= Len(shown[client])
                              THEN <<shown[client][set_index]>> ELSE <<>>]
    /\ UNCHANGED <<genVars, mixes_map, created, upload, uploads, generates,
                   gen_read, shown, tagVars, cliVars>>

Next ==
    \/ UploadBegin
    \/ UploadClearIndex
    \/ UploadRow
    \/ UploadIndex
    \/ UploadEnd
    \/ Generate
    \/ ViewSet

Spec == Init /\ [][Next]_vars

----------------------------------------------------------------------------
(* Claims about the front end (checked under Spec) *)

\* the track list a well-formed file yields, its Song objects numbered from base
RECURSIVE songs_of_rows(_, _)
songs_of_rows(rows, base) ==
    IF rows = <<>> THEN <<>>
    ELSE <<song_of_row(Head(rows), base + 1)>> \o songs_of_rows(Tail(rows), base + 1)

WellFormed(file) == \A i \in 1..Len(file) : ~file[i].short

\* C5: a generate request that runs while an upload (of a well-formed file)
\* is in flight reads the complete previous track list or the complete new
\* one, never a cleared or partly filled one.
C5_AtomicReload ==
    (gen_read.during /\ WellFormed(gen_read.file)) =>
        \/ gen_read.songs = gen_read.prior
        \/ gen_read.songs = songs_of_rows(gen_read.file, gen_read.base)

\* C7: a set number listed in a generate response dereferences, in a later
\* view_set, to the mix list of the subset listed under that number.
C7_StableSetNumbers ==
    (viewed.asked /\ viewed.listed # <<>>) =>
        /\ viewed.valid
        /\ viewed.mixes = viewed.listed[1].mixes

----------------------------------------------------------------------------
(* Claims about the compatibility rule (checked under SpecTag) *)

\* C3: for valid tags (n1, l1), (n2, l2), n in 1..12 and l in {A, B}, can_mix
\* is true exactly when n1 = n2, or l1 = l2 and |n1 - n2| is 1 or 11.
C3_CanMixIffRule ==
    (mixable # "pending" /\ Len(camelot1) \in 2..3 /\ Len(camelot2) \in 2..3) =>
        \A n1 \in 1..12, n2 \in 1..12, l1 \in {"A", "B"}, l2 \in {"A", "B"} :
            (camelot1 = FormatTag(n1, l1) /\ camelot2 = FormatTag(n2, l2)) =>
                (mixable = "True" <=>
                    (n1 = n2 \/ (l1 = l2 /\ Abs(n1 - n2) \in {1, 11})))

\* the wraparound pair 12A, 1A has been found mixable
C3_Witness ==
    /\ mixable = "True"
    /\ camelot1 = <<"1", "2", "A">>
    /\ camelot2 = <<"1", "A">>

\* A tag string is malformed: no letter suffix after a numeric prefix, a
\* prefix that is not the text of an integer, a number outside 1..12, or a
\* letter other than A/B (the letter is read case-insensitively, line 61).
IsIntegerText(s) ==
    LET body == IF s # <<>> /\ s[1] \in {"+", "-"} THEN Tail(s) ELSE s
    IN  body # <<>> /\ \A i \in 1..Len(body) : body[i] \in
            {"0", "1", "2", "3", "4", "5", "6", "7", "8", "9"}

RECURSIVE StripLeadingZeros(_)
StripLeadingZeros(s) ==
    IF Len(s) > 1 /\ s[1] = "0" THEN StripLeadingZeros(Tail(s)) ELSE s

\* the integer written by s lies in 1..12
InRingText(s) ==
    /\ s[1] # "-"
    /\ StripLeadingZeros(IF s[1] = "+" THEN Tail(s) ELSE s)
           \in {PyStr(n) : n \in 1..12}

Malformed(s) ==
    \/ Len(s) < 2
    \/ ~IsIntegerText(SubSeq(s, 1, Len(s) - 1))
    \/ ~InRingText(SubSeq(s, 1, Len(s) - 1))
    \/ s[Len(s)] \notin {"A", "B", "a", "b"}

\* C4: can_mix never raises (its outcome is a boolean), and it is false
\* whenever either tag is malformed, whatever the other tag is.
C4_FailSafe ==
    mixable # "pending" =>
        /\ mixable \in {"True", "False"}
        /\ (Malformed(camelot1) \/ Malformed(camelot2)) => mixable = "False"

\* a call with a well-formed first tag and a malformed second one (number 0)
C4_Witness ==
    /\ mixable = "False"
    /\ camelot1 = <<"1", "2", "a">>
    /\ camelot2 = <<"0", "B">>

----------------------------------------------------------------------------
(* Claims about the engine (checked under SpecMix, C8 under SpecRerun) *)

Carries(song, style) == \E i \in 1..Len(song.styles) : song.styles[i] = style

Adjacent(m) ==
    \A i \in 2..Len(m) : can_mix_outcome(m[i - 1].camelot, m[i].camelot) = "True"

\* C1: adjacency invariant: in every mix the search returns, each track is
\* can_mix-compatible with the track before it.
C1_Adjacency ==
    pc = "done" => \A k \in 1..Len(mixes) : Adjacent(mixes[k])

\* C2: exact usage: every mix found for an enumerated subset S and added to
\* the result uses exactly the tracks of S.
C2_ExactUsage ==
    pc = "done" =>
        \A c \in 1..Len(found) : \A k \in 1..Len(found[c].mixes) :
            LET m == found[c].mixes[k]
            IN  {m[i] : i \in 1..Len(m)} = found[c].song_set

\* C6: a failed load leaves the track list and the style index as they were
\* before the load started (empty, in main).
C6_LoadAllOrNothing ==
    pc = "load_failed" => (songs = <<>> /\ DOMAIN songs_by_style = {})

\* C8: the same catalog, style order and max_songs give the same result, the
\* mixes in the same order.
C8_Determinism ==
    pc = "done_again" => mixes_rerun = mixes

\* C9: if a style of the order is carried by no track of the catalog, the
\* result is empty.
C9_NoCandidate ==
    (pc = "done" /\ \E i \in 1..Len(style_order) :
                        \A s \in 1..Len(songs) : ~Carries(songs[s], style_order[i]))
        => mixes = <<>>

\* the search has run on an order with one style that tracks carry and, after
\* it, one that no track carries
C9_Witness ==
    /\ pc = "done"
    /\ Len(style_order) = 2
    /\ \E s \in 1..Len(songs) : Carries(songs[s], style_order[1])
    /\ \A s \in 1..Len(songs) : ~Carries(songs[s], style_order[2])
    /\ max_songs >= 2
    /\ Len(songs) >= 2
    /\ mixes = <<>>

\* the sequences over song_set that fit the order and are adjacent-compatible
ValidSequences(song_set, order) ==
    {m \in [1..Len(order) -> song_set] :
        /\ \A i \in 1..Len(order) : Carries(m[i], order[i])
        /\ Adjacent(m)}

\* C10: search completeness: for every enumerated subset, the search returns
\* every sequence that fits the order and is adjacent-compatible.
C10_Complete ==
    pc = "done" =>
        \A c \in 1..Len(found) :
            \A m \in ValidSequences(found[c].song_set, style_order) :
                \E k \in 1..Len(found[c].mixes) : found[c].mixes[k] = m

====
